---- MODULE Spec2Model ----
(***************************************************************************)
(* Model of delehef/metro: the builder (src/src/metro.rs: Metro, Track,    *)
(* MetroState) that turns calls into an event log, and the replay of that  *)
(* log by the renderer (src/src/events.rs: Metro::to_writer).              *)
(*                                                                         *)
(* The calls that only read the log (to_writer, to_vec, to_string,         *)
(* to_events) change nothing and are the operator to_writer below.         *)
(* into_events consumes the Metro, after which no log can be read: the     *)
(* behaviours end before it.                                               *)
(***************************************************************************)
EXTENDS Integers, Sequences, FiniteSets, TLC

\* ------------------------------------------------------------------ bounds
\* the ids the caller passes are 0..MaxId; the counter stops at MaxId+1
MaxId == 1
\* longest event log explored
MaxEvents == 3
\* most Track handles the caller holds at one time
MaxHandles == 2

\* usize::MAX, the id of a detached station (scaled to the 32-bit integers of TLC)
USIZE_MAX == 2147483647
\* filler for the unused fields of an event or of a call record
NoId == -1

Ids == 0 .. MaxId
\* the ids a handle can have
HandleIds == Ids \cup {USIZE_MAX}
\* station texts, as sequences of characters
Texts == { <<"H", "\n", "W">> }

\* ------------------------------------------------------------------ events
StartTrack(id) == [type |-> "StartTrack", a |-> id, b |-> NoId, text |-> <<>>, ids |-> <<>>]
StartTracks(track_ids) == [type |-> "StartTracks", a |-> NoId, b |-> NoId, text |-> <<>>, ids |-> track_ids]
StopTrack(id) == [type |-> "StopTrack", a |-> id, b |-> NoId, text |-> <<>>, ids |-> <<>>]
Station(id, text) == [type |-> "Station", a |-> id, b |-> NoId, text |-> text, ids |-> <<>>]
SplitTrack(parent, child) == [type |-> "SplitTrack", a |-> parent, b |-> child, text |-> <<>>, ids |-> <<>>]
JoinTrack(child, target) == [type |-> "JoinTrack", a |-> child, b |-> target, text |-> <<>>, ids |-> <<>>]
NoEvent == [type |-> "NoEvent", a |-> NoId, b |-> NoId, text |-> <<>>, ids |-> <<>>]

\* ------------------------------------------------------------------ state
VARIABLES
  tracks,    \* MetroState.tracks: the ids of the registry's stored aliases, in order
  events,    \* MetroState.events: the log
  next_id,   \* MetroState.next_id: the counter
  panicked,  \* the thread has panicked (a failed borrow, unwrap or overflow check)
  handles,   \* caller-held Track handles: id -> how many the caller holds
  last       \* the call that produced this state: op, the id of the handle it
             \* was made on (self), its id argument (arg), the id of the handle
             \* it returned (ret), and res: the result of is_dangling, for the
             \* other calls whether the id they concern was stored before them

vars == <<tracks, events, next_id, panicked, handles, last>>

\* helpers on sequences (Vec)
contains(v, x) == \E i \in 1 .. Len(v) : v[i] = x
\* Iterator::position, 1-based; 0 when absent
position(v, x) == IF contains(v, x) THEN CHOOSE i \in 1 .. Len(v) : v[i] = x /\ \A j \in 1 .. (i - 1) : v[j] # x ELSE 0
\* Vec::remove(index)
remove(v, i) == SubSeq(v, 1, i - 1) \o SubSeq(v, i + 1, Len(v))
\* Vec::retain(|t| t != x)
retain_ne(v, x) == SelectSeq(v, LAMBDA t : t # x)
\* insert that pushes at the end, whatever the index
insert_push(v, i, x) == Append(v, x)
\* Vec::insert(index, x), index 0-based as in the source
insert(v, i, x) == SubSeq(v, 1, i) \o <<x>> \o SubSeq(v, i + 1, Len(v))

\* the registry's active set: the ids stored in MetroState.tracks
Active(tr) == { tr[i] : i \in 1 .. Len(tr) }

\* the registry as a value: what the MetroState operations transform
State == [tracks |-> tracks, events |-> events, next_id |-> next_id, panicked |-> panicked]

\* ------------------------------------------------------------------ MetroState
MetroState_new == [tracks |-> <<>>, events |-> <<>>, next_id |-> 0, panicked |-> FALSE]

MetroState_add_event(s, event) == [s EXCEPT !.events = Append(s.events, event)]

\* returns the id and the state with the counter advanced
MetroState_next_id(s) == [ret |-> s.next_id, s |-> [s EXCEPT !.next_id = s.next_id + 1]]

\* Track::is_dangling
is_dangling(tr, id) == \A i \in 1 .. Len(tr) : tr[i] # id

\* the check of Drop for Track with unwrap_or(false): a failed try_borrow
\* counts as "still stored"
drop_is_dangling_unwrap_or_false(tr, id, mutably_borrowed) ==
  IF mutably_borrowed THEN FALSE ELSE is_dangling(tr, id)

\* Drop for Track, lines 554-566: is the handle's id gone from the registry?
\* When the registry is already borrowed mutably try_borrow fails and the
\* handle is taken to be dangling.
drop_is_dangling(tr, id, mutably_borrowed) == IF mutably_borrowed THEN TRUE ELSE is_dangling(tr, id)

\* Drop for Track, run for the stored alias that tracks.remove(index) takes
\* out while the registry is borrowed mutably: a no-op; were it to go on, the
\* borrow_mut of add_event would panic
Track_drop_reentrant(s, id) ==
  IF drop_is_dangling(s.tracks, id, TRUE) THEN s ELSE [s EXCEPT !.panicked = TRUE]

\* a release that appends StopTrack(id) without asking whether id is stored
Track_drop_unchecked(s, id) ==
  LET s1 == MetroState_add_event(s, StopTrack(id))
      index == position(s1.tracks, id)
  IN IF index = 0 THEN s1 ELSE Track_drop_reentrant([s1 EXCEPT !.tracks = remove(s1.tracks, index)], id)

\* a release that appends StopTrack(id) and leaves the stored alias in place
Track_drop_keeps_alias(s, id) ==
  IF drop_is_dangling(s.tracks, id, FALSE) THEN s ELSE MetroState_add_event(s, StopTrack(id))

\* Drop for Track, run for a handle the caller releases
Track_drop(s, id) ==
  IF drop_is_dangling(s.tracks, id, FALSE)
    THEN s
    ELSE LET s1 == MetroState_add_event(s, StopTrack(id))
             index == position(s1.tracks, id)
         IN Track_drop_reentrant([s1 EXCEPT !.tracks = remove(s1.tracks, index)], id)

\* new_track that pushes and emits without looking the id up
MetroState_new_track_always_push(s, track_id) ==
  [ret |-> track_id,
   s |-> MetroState_add_event([s EXCEPT !.tracks = Append(s.tracks, track_id)], StartTrack(track_id))]

\* MetroState::new_track: alias if the id is stored, else push and StartTrack
MetroState_new_track(s, track_id) ==
  IF contains(s.tracks, track_id)
    THEN [ret |-> track_id, s |-> s]
    ELSE [ret |-> track_id,
          s |-> MetroState_add_event([s EXCEPT !.tracks = Append(s.tracks, track_id)], StartTrack(track_id))]

\* get_track that looks at the first stored alias only
MetroState_get_track_first_only(s, track_id) ==
  IF Len(s.tracks) > 0 /\ s.tracks[1] = track_id THEN [ret |-> track_id, s |-> s] ELSE [ret |-> NoId, s |-> s]

\* MetroState::get_track: Some(alias) or None (NoId)
MetroState_get_track(s, track_id) ==
  IF contains(s.tracks, track_id) THEN [ret |-> track_id, s |-> s] ELSE [ret |-> NoId, s |-> s]

\* split_track that stores the new alias without looking for the id
MetroState_split_track_always_push(s, from_id, new_track_id) ==
  [ret |-> new_track_id,
   s |-> MetroState_add_event([s EXCEPT !.tracks = Append(s.tracks, new_track_id)], SplitTrack(from_id, new_track_id))]

\* split_track that emits SplitTrack also when it returns an alias
MetroState_split_track_always_emit(s, from_id, new_track_id) ==
  IF contains(s.tracks, new_track_id)
    THEN [ret |-> new_track_id, s |-> MetroState_add_event(s, SplitTrack(from_id, new_track_id))]
    ELSE [ret |-> new_track_id,
          s |-> MetroState_add_event([s EXCEPT !.tracks = Append(s.tracks, new_track_id)], SplitTrack(from_id, new_track_id))]

\* MetroState::split_track
MetroState_split_track(s, from_id, new_track_id) ==
  IF contains(s.tracks, new_track_id)
    THEN [ret |-> new_track_id, s |-> s]
    ELSE [ret |-> new_track_id,
          s |-> MetroState_add_event([s EXCEPT !.tracks = Append(s.tracks, new_track_id)], SplitTrack(from_id, new_track_id))]

\* join_track that leaves the stored alias of from_track in place
MetroState_join_track_keeps_alias(s, from_track_id, to_track_id) ==
  MetroState_add_event(s, JoinTrack(from_track_id, to_track_id))

\* MetroState::join_track: the event first, then the stored alias of from_track
\* is removed (its drop runs under the mutable borrow)
MetroState_join_track(s, from_track_id, to_track_id) ==
  LET s1 == MetroState_add_event(s, JoinTrack(from_track_id, to_track_id))
      index == position(s1.tracks, from_track_id)
  IN IF index # 0
       THEN Track_drop_reentrant([s1 EXCEPT !.tracks = remove(s1.tracks, index)], from_track_id)
       ELSE s1

\* Track::join: join_track, then self goes out of scope and is dropped
Track_join_body(s, self_id, to_id) == Track_drop(MetroState_join_track(s, self_id, to_id), self_id)

\* ------------------------------------------------------------------ calls
Call(op, self, arg, ret, res) == [op |-> op, self |-> self, arg |-> arg, ret |-> ret, res |-> res]

Install(s) ==
  /\ tracks' = s.tracks
  /\ events' = s.events
  /\ next_id' = s.next_id
  /\ panicked' = s.panicked

\* the call can be made (the program has not panicked) and the explored log has
\* room for what it appends
Fits(s) == ~panicked /\ Len(s.events) <= MaxEvents

\* how many handles the caller holds
RECURSIVE Sum(_, _)
Sum(f, S) == IF S = {} THEN 0 ELSE LET x == CHOOSE y \in S : TRUE IN f[x] + Sum(f, S \ {x})
Held == Sum(handles, HandleIds)
CanHold == Held < MaxHandles

Give(id) == handles' = [handles EXCEPT ![id] = @ + 1]
Take(id) == handles' = [handles EXCEPT ![id] = @ - 1]

Init ==
  /\ tracks = MetroState_new.tracks
  /\ events = MetroState_new.events
  /\ next_id = MetroState_new.next_id
  /\ panicked = MetroState_new.panicked
  /\ handles = [id \in HandleIds |-> 0]
  /\ last = Call("new", NoId, NoId, NoId, FALSE)

\* Metro::new_track
Metro_new_track ==
  /\ next_id <= MaxId
  /\ LET n == MetroState_next_id(State)
         r == MetroState_new_track(n.s, n.ret)
     IN /\ CanHold
        /\ Fits(r.s)
        /\ Install(r.s)
        /\ Give(r.ret)
        /\ last' = Call("new_track", NoId, NoId, r.ret, contains(tracks, r.ret))

\* Metro::new_track_with_id
Metro_new_track_with_id(track_id) ==
  LET r == MetroState_new_track(State, track_id)
  IN /\ CanHold
     /\ Fits(r.s)
     /\ Install(r.s)
     /\ Give(r.ret)
     /\ last' = Call("new_track_with_id", NoId, track_id, r.ret, contains(tracks, track_id))

\* Metro::get_track
Metro_get_track(track_id) ==
  LET r == MetroState_get_track(State, track_id)
  IN /\ r.ret # NoId => CanHold
     /\ Fits(r.s)
     /\ Install(r.s)
     /\ IF r.ret # NoId THEN Give(r.ret) ELSE UNCHANGED handles
     /\ last' = Call("get_track", NoId, track_id, r.ret, contains(tracks, track_id))

\* Metro::add_station: the detached station
Metro_add_station(text) ==
  LET s == MetroState_add_event(State, Station(USIZE_MAX, text))
  IN /\ Fits(s)
     /\ Install(s)
     /\ UNCHANGED handles
     /\ last' = Call("metro_add_station", NoId, NoId, NoId, FALSE)

\* Track::add_station
Track_add_station(self, text) ==
  /\ handles[self] > 0
  /\ LET s == MetroState_add_event(State, Station(self, text))
     IN /\ Fits(s)
        /\ Install(s)
        /\ UNCHANGED handles
        /\ last' = Call("add_station", self, NoId, NoId, contains(tracks, self))

\* Track::split
Track_split(self) ==
  /\ handles[self] > 0
  /\ next_id <= MaxId
  /\ LET n == MetroState_next_id(State)
         r == MetroState_split_track(n.s, self, n.ret)
     IN /\ CanHold
        /\ Fits(r.s)
        /\ Install(r.s)
        /\ Give(r.ret)
        /\ last' = Call("split", self, NoId, r.ret, contains(tracks, r.ret))

\* Track::split_with_id
Track_split_with_id(self, new_track_id) ==
  /\ handles[self] > 0
  /\ LET r == MetroState_split_track(State, self, new_track_id)
     IN /\ CanHold
        /\ Fits(r.s)
        /\ Install(r.s)
        /\ Give(r.ret)
        /\ last' = Call("split_with_id", self, new_track_id, r.ret, contains(tracks, new_track_id))

\* Track::join: self is moved in, to_track is another handle the caller holds
Track_join(self, to_track) ==
  /\ handles[self] > 0
  /\ handles[to_track] > (IF to_track = self THEN 1 ELSE 0)
  /\ LET s == Track_join_body(State, self, to_track)
     IN /\ Fits(s)
        /\ Install(s)
        /\ Take(self)
        /\ last' = Call("join", self, to_track, NoId, contains(tracks, self))

\* Track::stop: the body is empty, self is dropped
Track_stop(self) ==
  /\ handles[self] > 0
  /\ LET s == Track_drop(State, self)
     IN /\ Fits(s)
        /\ Install(s)
        /\ Take(self)
        /\ last' = Call("stop", self, NoId, NoId, contains(tracks, self))

\* a handle goes out of scope without stop(): Drop for Track
Track_release(self) ==
  /\ handles[self] > 0
  /\ LET s == Track_drop(State, self)
     IN /\ Fits(s)
        /\ Install(s)
        /\ Take(self)
        /\ last' = Call("drop", self, NoId, NoId, contains(tracks, self))

\* Track::is_dangling, called on a handle the caller holds
Track_is_dangling(self) ==
  /\ handles[self] > 0
  /\ ~panicked
  /\ UNCHANGED <<tracks, events, next_id, panicked, handles>>
  /\ last' = Call("is_dangling", self, NoId, NoId, is_dangling(tracks, self))

Next ==
  \/ Metro_new_track
  \/ \E id \in Ids : Metro_new_track_with_id(id)
  \/ \E id \in Ids : Metro_get_track(id)
  \/ \E text \in Texts : Metro_add_station(text)
  \/ \E id \in HandleIds, text \in Texts : Track_add_station(id, text)
  \/ \E id \in HandleIds : Track_split(id)
  \/ \E id \in HandleIds, new \in Ids : Track_split_with_id(id, new)
  \/ \E id \in HandleIds, to \in HandleIds : Track_join(id, to)
  \/ \E id \in HandleIds : Track_stop(id)
  \/ \E id \in HandleIds : Track_release(id)
  \/ \E id \in HandleIds : Track_is_dangling(id)

Spec == Init /\ [][Next]_vars

TypeOK ==
  /\ \A i \in 1 .. Len(tracks) : tracks[i] \in HandleIds
  /\ Len(events) <= MaxEvents
  /\ next_id \in 0 .. (MaxId + 1)
  /\ handles \in [HandleIds -> 0 .. MaxHandles]
  /\ Held <= MaxHandles
  /\ panicked \in BOOLEAN

\* ------------------------------------------------------------------ replay
\* Metro::to_writer of events.rs, the part that maintains `tracks`: the list is
\* seeded with the default track 0; a failed assert!, unwrap or expect leaves
\* the replay in the fatal state and stops it
to_writer_seed == [tracks |-> <<0>>, fatal |-> FALSE]

\* start_tracks with the ids put in front of the list
start_tracks_insert_front(r, track_ids) ==
  IF \E i \in 1 .. Len(track_ids) : contains(r.tracks, track_ids[i]) THEN [r EXCEPT !.fatal = TRUE]
  ELSE [r EXCEPT !.tracks = track_ids \o r.tracks]
\* the loop of StartTracks: each id is asserted absent, then pushed
RECURSIVE start_tracks(_, _)
start_tracks(r, track_ids) ==
  IF track_ids = <<>> \/ r.fatal THEN r
  ELSE IF contains(r.tracks, Head(track_ids)) THEN [r EXCEPT !.fatal = TRUE]
  ELSE start_tracks([r EXCEPT !.tracks = Append(r.tracks, Head(track_ids))], Tail(track_ids))

to_writer_event(r, e) ==
  IF r.fatal THEN r
  ELSE CASE e.type = "StartTrack" ->
              IF contains(r.tracks, e.a) THEN [r EXCEPT !.fatal = TRUE]
              ELSE [r EXCEPT !.tracks = Append(r.tracks, e.a)]
         [] e.type = "StartTracks" -> start_tracks(r, e.ids)
         [] e.type = "StopTrack" ->
              IF ~contains(r.tracks, e.a) THEN [r EXCEPT !.fatal = TRUE]
              ELSE [r EXCEPT !.tracks = retain_ne(r.tracks, e.a)]
         [] e.type = "Station" -> r
         [] e.type = "SplitTrack" ->
              IF ~contains(r.tracks, e.a) THEN [r EXCEPT !.fatal = TRUE]
              ELSE [r EXCEPT !.tracks = insert(r.tracks, position(r.tracks, e.a), e.b)]
         [] e.type = "JoinTrack" ->
              IF ~contains(r.tracks, e.b) \/ ~contains(r.tracks, e.a) THEN [r EXCEPT !.fatal = TRUE]
              ELSE [r EXCEPT !.tracks = retain_ne(r.tracks, e.a)]
         [] OTHER -> r

\* the replay after the first k events of the log
RECURSIVE to_writer(_, _)
to_writer(evs, k) == IF k = 0 THEN to_writer_seed ELSE to_writer_event(to_writer(evs, k - 1), evs[k])

\* ------------------------------------------------------------------ rendering
\* A rendering run is fixed by the settings (RenderingSettings.splat, .color),
\* by the build (overflow checks on or off) and by the sink: fail_at = n > 0
\* makes the n-th write fail, fail_at = 0 never fails.
Run(splat, color, overflow_checks, fail_at) ==
  [splat |-> splat, color |-> color, overflow_checks |-> overflow_checks, fail_at |-> fail_at]

\* the result of usize arithmetic that panicked
Overflow == -2
\* usize addition: a panic under overflow checks, a wrap without them
usize_add(a, b, checks) ==
  IF a = Overflow \/ b = Overflow THEN Overflow
  ELSE IF a <= USIZE_MAX - b THEN a + b
  ELSE IF checks THEN Overflow
  ELSE a - (USIZE_MAX - b) - 1
\* usize subtraction: a panic under overflow checks, a wrap without them
usize_sub(a, b, checks) ==
  IF a = Overflow \/ b = Overflow THEN Overflow
  ELSE IF a >= b THEN a - b
  ELSE IF checks THEN Overflow
  ELSE USIZE_MAX - (b - a) + 1

\* bitwise exclusive or of two naturals
RECURSIVE xor(_, _)
xor(a, b) ==
  IF a = 0 THEN b
  ELSE IF b = 0 THEN a
  ELSE (((a % 2) + (b % 2)) % 2) + 2 * xor(a \div 2, b \div 2)

\* the colour of an uncoloured glyph
NoColor == -1
\* RenderingSettings::colorize: the xterm colour index computed from the
\* track id, NoColor when colours are off, Overflow when i.0 + 1 panics
colorize(c, i) ==
  IF ~c.color THEN NoColor
  ELSE LET n == usize_add(i, 1, c.overflow_checks)
       IN IF n = Overflow THEN Overflow ELSE xor(n, 93) % 255

\* RenderingSettings::rail_to_str: the width in characters of a rail glyph
rail_width(rail, splat) ==
  CASE rail \in {"Straight", "Station", "Ground"} -> 1 + splat
    [] rail = "Horizontal" -> splat + 1
    [] rail = "ShiftRight" -> 1 + splat + 1 + splat
    [] rail = "ShiftLeft" -> 1 + splat + 1
    [] rail \in {"TopRight", "BottomRight"} -> splat + 1 + splat
    [] rail = "BottomtLeft" -> 1 + splat
    [] rail = "SplitRight" -> 1
    [] rail = "SplitLeft" -> splat + 1

\* str::lines on a text without carriage returns: the pieces between line
\* feeds, a final empty piece dropped
RECURSIVE split_lf(_, _)
split_lf(text, cur) ==
  IF text = <<>> THEN <<cur>>
  ELSE IF Head(text) = "\n" THEN <<cur>> \o split_lf(Tail(text), <<>>)
  ELSE split_lf(Tail(text), Append(cur, Head(text)))
lines(text) ==
  LET p == split_lf(text, <<>>)
  IN IF p[Len(p)] = <<>> THEN SubSeq(p, 1, Len(p) - 1) ELSE p

\* what the sink receives: a rail glyph, a padded text, or a line end; each
\* write! is taken as one write of the sink, received whole or not at all
RailItem(rail, id, color) == [kind |-> "rail", rail |-> rail, id |-> id, color |-> color, line |-> <<>>, pad |-> 0]
TextItem(line, pad) == [kind |-> "text", rail |-> "", id |-> NoId, color |-> NoColor, line |-> line, pad |-> pad]
LineEnd == [kind |-> "newline", rail |-> "", id |-> NoId, color |-> NoColor, line |-> <<>>, pad |-> 0]

\* write with the sink's error dropped instead of returned
write_drops_error(r, item, c) ==
  IF r.fatal \/ r.err THEN r
  ELSE IF r.attempts + 1 = c.fail_at THEN [r EXCEPT !.attempts = @ + 1]
  ELSE [r EXCEPT !.attempts = @ + 1, !.out = Append(@, item)]
\* write!(w, ..)?: nothing after a panic or a returned error; the write that
\* the sink refuses sets err and is the last one attempted
write(r, item, c) ==
  IF r.fatal \/ r.err THEN r
  ELSE IF r.attempts + 1 = c.fail_at THEN [r EXCEPT !.attempts = @ + 1, !.err = TRUE]
  ELSE [r EXCEPT !.attempts = @ + 1, !.out = Append(@, item)]

\* write!(w, "{}", rail.render(&self.rdr, track_id))?
write_rail(r, rail, id, c) ==
  IF r.fatal \/ r.err THEN r
  ELSE LET color == colorize(c, id)
       IN IF color = Overflow THEN [r EXCEPT !.fatal = TRUE]
          ELSE write(r, RailItem(rail, id, color), c)

\* one write per cell, left to right; a cell is <<rail, colouring id>>
RECURSIVE write_cells(_, _, _)
write_cells(r, cells, c) ==
  IF cells = <<>> THEN r
  ELSE write_cells(write_rail(r, Head(cells)[1], Head(cells)[2], c), Tail(cells), c)

\* the text of a station line: pad = line.len() + widest_track - tracks.len() + 3
write_text(r, line, c) ==
  IF r.fatal \/ r.err THEN r
  ELSE LET k == c.overflow_checks
           pad == usize_add(usize_sub(usize_add(Len(line), r.widest_track, k), Len(r.tracks), k), 3, k)
       IN IF pad = Overflow THEN [r EXCEPT !.fatal = TRUE]
          ELSE write(r, TextItem(line, pad), c)

\* a row: its cells, its text if it has one, then writeln!(w)?
Row(cells) == [cells |-> cells, text |-> <<>>]
TextRow(cells, line) == [cells |-> cells, text |-> <<line>>]
write_row(r, row, c) ==
  LET r1 == write_cells(r, row.cells, c)
      r2 == IF row.text = <<>> THEN r1 ELSE write_text(r1, row.text[1], c)
  IN write(r2, LineEnd, c)
RECURSIVE write_rows(_, _, _)
write_rows(r, rows, c) ==
  IF rows = <<>> THEN r
  ELSE write_rows(write_row(r, Head(rows), c), Tail(rows), c)

\* a sequence built by index, empty when n <= 0
Build(n, F(_)) == IF n <= 0 THEN <<>> ELSE [i \in 1 .. n |-> F(i)]

\* the rows each arm of the match in to_writer writes, for the active list tr
\* at the event (positions are 0-based as in the source)
Straights(tr) == Build(Len(tr), LAMBDA j : <<"Straight", tr[j]>>)
StopTrack_rows(tr, stopped) ==
  << Row(Build(Len(tr), LAMBDA j : <<IF tr[j] = stopped THEN "Ground" ELSE "Ground", tr[j]>>)) >>
\* Station_rows with the test on the line index left out
Station_rows_every_line(tr, target_id, text) ==
  LET ls == lines(text)
  IN Build(Len(ls), LAMBDA i :
       TextRow(Build(Len(tr), LAMBDA j :
                 <<IF tr[j] = target_id THEN "Station" ELSE "Straight", tr[j]>>), ls[i]))
     \o << Row(Straights(tr)) >>
Station_rows(tr, target_id, text) ==
  LET ls == lines(text)
  IN Build(Len(ls), LAMBDA i :
       TextRow(Build(Len(tr), LAMBDA j :
                 <<IF i - 1 = 0 /\ tr[j] = target_id THEN "Station" ELSE "Straight", tr[j]>>), ls[i]))
     \o << Row(Straights(tr)) >>
SplitTrack_rows(tr, parent, child) ==
  LET parent_position == position(tr, parent) - 1
      len == Len(tr)
      shifts == IF len > 1
                THEN Build(len - parent_position, LAMBDA k :
                       Row(Build(len, LAMBDA j :
                             <<IF len - (j - 1) = k - 1 THEN "ShiftRight" ELSE "Straight", tr[j]>>)))
                ELSE <<>>
      after == insert(tr, parent_position + 1, child)
  IN shifts \o
     << Row(Build(Len(after), LAMBDA j :
              <<IF after[j] = child THEN "TopRight"
                ELSE IF after[j] = parent THEN "SplitRight"
                ELSE "Straight", after[j]>>)) >>
JoinTrack_rows(tr, child, target) ==
  LET target_position == position(tr, target) - 1
      child_position == position(tr, child) - 1
      min_position == IF target_position < child_position THEN target_position ELSE child_position
      max_position == IF target_position > child_position THEN target_position ELSE child_position
      after == retain_ne(tr, child)
      from == IF child_position > target_position THEN max_position ELSE min_position + 1
  IN << Row(Build(Len(tr), LAMBDA j :
              LET i == j - 1
              IN IF i = target_position
                 THEN <<IF child_position > target_position THEN "SplitRight" ELSE "SplitLeft", tr[j]>>
                 ELSE IF i = child_position
                 THEN <<IF child_position > target_position THEN "BottomRight" ELSE "BottomtLeft", child>>
                 ELSE IF i > min_position /\ i < max_position
                 THEN <<"Horizontal", child>>
                 ELSE <<"Straight", tr[j]>>)) >>
     \o Build(Len(after) - from, LAMBDA k :
          LET i == from + k - 1
          IN Row(Build(Len(after), LAMBDA j1 :
                   <<IF j1 - 1 = i /\ j1 - 1 # 0 THEN "ShiftLeft" ELSE "Straight", after[j1]>>)))
event_rows(tr, e) ==
  CASE e.type \in {"StartTrack", "StartTracks"} -> <<>>
    [] e.type = "StopTrack" -> StopTrack_rows(tr, e.a)
    [] e.type = "Station" -> Station_rows(tr, e.a, e.text)
    [] e.type = "SplitTrack" -> SplitTrack_rows(tr, e.a, e.b)
    [] e.type = "JoinTrack" -> JoinTrack_rows(tr, e.a, e.b)
    [] e.type = "NoEvent" -> << Row(Straights(tr)) >>

\* the fold that computes widest_track: (current, max) after the first k events
RECURSIVE widest_fold(_, _, _)
widest_fold(evs, k, checks) ==
  IF k = 0 THEN [current |-> 1, max |-> 1]
  ELSE LET f == widest_fold(evs, k - 1, checks)
           e == evs[k]
           current == CASE e.type = "StartTrack" -> usize_add(f.current, 1, checks)
                        [] e.type = "StartTracks" -> usize_add(f.current, Len(e.ids), checks)
                        [] e.type = "StopTrack" -> usize_sub(f.current, 1, checks)
                        [] e.type = "SplitTrack" -> usize_add(f.current, 1, checks)
                        [] e.type = "JoinTrack" -> usize_sub(f.current, 1, checks)
                        [] OTHER -> f.current
       IN IF f.current = Overflow \/ current = Overflow THEN [current |-> Overflow, max |-> Overflow]
          ELSE [current |-> current, max |-> IF f.max > current THEN f.max ELSE current]

\* the renderer before its first event: the seed list, the widest count, an
\* untouched sink; fatal when the fold panicked
render_seed(evs, c) ==
  LET widest_track == widest_fold(evs, Len(evs), c.overflow_checks).max
  IN [tracks |-> to_writer_seed.tracks, fatal |-> widest_track = Overflow, err |-> FALSE,
      out |-> <<>>, attempts |-> 0, widest_track |-> widest_track]

\* render_event with the arm's checks made after its rows are written
render_event_rows_first(r, e, c) ==
  IF r.fatal \/ r.err THEN r
  ELSE LET w == write_rows(r, event_rows(r.tracks, e), c)
           t == to_writer_event(r, e)
       IN IF w.fatal \/ w.err THEN w ELSE [w EXCEPT !.tracks = t.tracks, !.fatal = t.fatal]
\* one turn of the loop: the arm's checks and track update are those of
\* to_writer_event, the rows are written before the update becomes visible
render_event(r, e, c) ==
  IF r.fatal \/ r.err THEN r
  ELSE LET t == to_writer_event(r, e)
       IN IF t.fatal THEN t
          ELSE LET w == write_rows(r, event_rows(r.tracks, e), c)
               IN IF w.fatal \/ w.err THEN w ELSE [w EXCEPT !.tracks = t.tracks]

\* Metro::to_writer after the first k events of the log
RECURSIVE render(_, _, _)
render(evs, k, c) == IF k = 0 THEN render_seed(evs, c) ELSE render_event(render(evs, k - 1, c), evs[k], c)
\* the renderer before each event and after the last: entry k + 1 is
\* render(evs, k, c)
RECURSIVE render_states(_, _, _)
render_states(evs, k, c) ==
  IF k = 0 THEN << render_seed(evs, c) >>
  ELSE LET st == render_states(evs, k - 1, c)
       IN Append(st, render_event(st[k], evs[k], c))
\* what was written between two states of one rendering
Written(before, after) == SubSeq(after.out, Len(before.out) + 1, Len(after.out))

\* the rows of an output: the items between line ends; an unfinished last
\* row (a failed sink) is kept
RECURSIVE rows_from(_, _)
rows_from(out, cur) ==
  IF out = <<>> THEN (IF cur = <<>> THEN <<>> ELSE <<cur>>)
  ELSE IF Head(out).kind = "newline" THEN <<cur>> \o rows_from(Tail(out), <<>>)
  ELSE rows_from(Tail(out), Append(cur, Head(out)))
Rows(out) == rows_from(out, <<>>)
\* the rail glyphs of a row, left to right, and its text items
RowRails(row) == SelectSeq(row, LAMBDA it : it.kind = "rail")
RowTexts(row) == SelectSeq(row, LAMBDA it : it.kind = "text")
\* the horizontal offset at which a row's text starts: the widths of its
\* glyphs plus the left padding of the right-aligned line
RECURSIVE rails_width(_, _)
rails_width(rails, splat) ==
  IF rails = <<>> THEN 0 ELSE rail_width(Head(rails).rail, splat) + rails_width(Tail(rails), splat)
TextOffset(row, splat) ==
  LET t == RowTexts(row)[1]
  IN rails_width(RowRails(row), splat) + (IF t.pad > Len(t.line) THEN t.pad - Len(t.line) ELSE 0)

\* ------------------------------------------------------------------ hand-built logs
\* longest hand-built log
MaxLog == 2
\* largest track id a hand-built event names, besides usize::MAX
MaxTrackId == 1
\* the sink is made to fail at its first to MaxFailAt-th write
MaxFailAt == 4
TrackIds == 0 .. MaxTrackId
\* texts with no line, one line ended by a line feed, and two lines
StationTexts == { <<>>, <<"H", "\n">>, <<"H", "\n", "W">> }
\* id lists of StartTracks: empty, fresh ids in both orders, a list that names
\* the seeded id after a fresh one
StartTracksLists == { <<>>, <<1, 2>>, <<2, 1>>, <<2, 0>> }
\* the events a caller can push
Events ==
  {StartTrack(i) : i \in TrackIds \cup {USIZE_MAX}}
    \cup {StartTracks(l) : l \in StartTracksLists}
    \cup {StopTrack(i) : i \in TrackIds}
    \cup {Station(i, t) : i \in TrackIds, t \in StationTexts}
    \cup {SplitTrack(p, ch) : p \in TrackIds, ch \in TrackIds}
    \cup {JoinTrack(ch, t) : ch \in TrackIds, t \in TrackIds}
    \cup {NoEvent}

\* events::Metro::push
EventsMetro_push(event) ==
  /\ Len(events) < MaxLog
  /\ events' = Append(events, event)
  /\ UNCHANGED <<tracks, next_id, panicked, handles, last>>

RenderNext == \E event \in Events : EventsMetro_push(event)
\* a log built by pushing events by hand
RenderSpec == Init /\ [][RenderNext]_vars

\* longest hand-built log of the longer runs
MaxLongLog == 3
\* events::Metro::push, for logs of up to MaxLongLog events
EventsMetro_push_long(event) ==
  /\ Len(events) < MaxLongLog
  /\ events' = Append(events, event)
  /\ UNCHANGED <<tracks, next_id, panicked, handles, last>>
LongNext == \E event \in Events : EventsMetro_push_long(event)
\* a hand-built log of up to MaxLongLog events
LongLogSpec == Init /\ [][LongNext]_vars

\* the builder, with tracks of id usize::MAX allowed
SentinelNext == Next \/ Metro_new_track_with_id(USIZE_MAX)
SpecSentinel == Init /\ [][SentinelNext]_vars

\* the splat settings tried; 5 is the default
DefaultSplat == 5
Splats == {0, 1, DefaultSplat}
\* the output of the k-th event of a rendering
EventOut(evs, k, c) ==
  SubSeq(render(evs, k, c).out, Len(render(evs, k - 1, c).out) + 1, Len(render(evs, k, c).out))
\* the rails of a row as glyph names
Glyphs(row) == [j \in 1 .. Len(RowRails(row)) |-> RowRails(row)[j].rail]

\* ------------------------------------------------------------------ claims
NoDuplicates(v) == \A i, j \in 1 .. Len(v) : v[i] = v[j] => i = j
Appended == Len(events') = Len(events) + 1
NewEvent == events'[Len(events')]
IsRelease(c) == c.op \in {"stop", "drop"}
\* how many StopTrack(id) the log holds, and how many events that create id
Stops(evs, id) == Len(SelectSeq(evs, LAMBDA e : e = StopTrack(id)))
Creations(evs, id) == Len(SelectSeq(evs, LAMBDA e : (e.type = "StartTrack" /\ e.a = id) \/ (e.type = "SplitTrack" /\ e.b = id)))

\* C1: replaying the builder's log (active list seeded with [0]) never
\* reaches a fatal contract violation: no StartTrack of an id already in
\* active, no StopTrack, SplitTrack or JoinTrack naming an absent id.
C1_ReplayNeverFatal == ~to_writer(events, Len(events)).fatal

\* C2: at no point of the replay of a builder-produced log does the
\* renderer's active list hold the same id twice.
C2_ReplayNoDuplicate == \A k \in 0 .. Len(events) : NoDuplicates(to_writer(events, k).tracks)

\* C3: every StopTrack, SplitTrack and JoinTrack the builder appends names as
\* id, parent, join-child and join-target only ids that are in the registry's
\* active set immediately before the call (so nothing is appended that
\* references a dangling handle's id as a live track).
C3_AppendedNamesActive ==
  [][Appended =>
       /\ NewEvent.type = "StopTrack" => NewEvent.a \in Active(tracks)
       /\ NewEvent.type = "SplitTrack" => NewEvent.a \in Active(tracks)
       /\ NewEvent.type = "JoinTrack" => NewEvent.a \in Active(tracks) /\ NewEvent.b \in Active(tracks)]_vars

\* C4: a release (stop() or drop) of a handle whose id is active appends
\* StopTrack(id) and removes id from the active set, leaving the other ids in
\* place; a release of a handle whose id is not active appends nothing and
\* changes nothing in the registry; StopTrack(id) is appended by nothing but a
\* release that removes id, so the log never holds more StopTrack(id) than
\* intervals of id that have ended.
C4_StopExactlyOnRemoval ==
  [][/\ IsRelease(last') =>
          IF last'.self \in Active(tracks)
            THEN /\ events' = Append(events, StopTrack(last'.self))
                 /\ tracks' = retain_ne(tracks, last'.self)
                 /\ last'.self \notin Active(tracks')
            ELSE UNCHANGED <<tracks, events, next_id, panicked>>
     /\ (Appended /\ NewEvent.type = "StopTrack") =>
          /\ IsRelease(last')
          /\ NewEvent.a = last'.self
          /\ NewEvent.a \in Active(tracks)
          /\ NewEvent.a \notin Active(tracks')
     /\ \A id \in HandleIds :
          Stops(events', id) + (IF id \in Active(tracks') THEN 1 ELSE 0) <= Creations(events', id)]_vars

\* C4 witness: a release has just removed an active id and appended its
\* StopTrack while another handle of that id is still held.
C4_Witness ==
  /\ IsRelease(last) /\ last.res
  /\ handles[last.self] >= 1
  /\ Len(events) > 0 /\ events[Len(events)] = StopTrack(last.self)
  /\ last.self \notin Active(tracks)

\* C5 (as stated): an implicit release stops the track only when the last
\* caller-held handle goes: dropping one of two or more handles that alias an
\* active id leaves the id active and appends no StopTrack.
C5_DropStopsOnlyAtLastHandle ==
  [][(last'.op = "drop" /\ handles[last'.self] >= 2 /\ last'.self \in Active(tracks)) =>
       (last'.self \in Active(tracks') /\ events' = events)]_vars

\* C5 (amended): an implicit release acts as stop() does: dropping any one of
\* the handles that alias an active id removes the id from the active set and
\* appends one StopTrack(id) at once, and the handles still held for that id
\* are dangling.
C5_DropOfAnyAliasStops ==
  [][(last'.op = "drop" /\ handles[last'.self] >= 2 /\ last'.self \in Active(tracks)) =>
       /\ events' = Append(events, StopTrack(last'.self))
       /\ last'.self \notin Active(tracks')
       /\ handles'[last'.self] >= 1
       /\ is_dangling(tracks', last'.self)]_vars

\* C5 witness: a drop of one alias of an active id has stopped the track while
\* the caller still holds another handle of it.
C5_Witness ==
  /\ last.op = "drop" /\ last.res
  /\ handles[last.self] >= 1
  /\ events[Len(events)] = StopTrack(last.self)
  /\ is_dangling(tracks, last.self)

\* C6: is_dangling() on a handle answers true iff the handle's id is not in
\* the active set; once the track of an id is stopped through one handle every
\* handle of that id is dangling, and once new_track_with_id re-creates the id
\* (appending a new StartTrack) every handle of that id is non-dangling again.
C6_DanglingIffNotActive ==
  [][/\ last'.op = "is_dangling" => (last'.res <=> last'.self \notin Active(tracks'))
     /\ (IsRelease(last') /\ last'.self \in Active(tracks)) => is_dangling(tracks', last'.self)
     /\ last'.op = "new_track_with_id" =>
          /\ ~is_dangling(tracks', last'.arg)
          /\ is_dangling(tracks, last'.arg) => events' = Append(events, StartTrack(last'.arg))]_vars

\* C6 witness: an id was stopped while a second handle of it was held, and has
\* just been re-created: the old handle and the new one are both non-dangling.
C6_Witness ==
  /\ last.op = "new_track_with_id" /\ ~last.res
  /\ handles[last.arg] >= 2
  /\ Stops(events, last.arg) >= 1
  /\ events[Len(events)] = StartTrack(last.arg)
  /\ ~is_dangling(tracks, last.arg)

\* C7: new_track() returns a handle whose id was not active before the call
\* and appends exactly one StartTrack(id); split() allocates an id that was not
\* active and appends exactly one SplitTrack(parent, id).
C7_CounterIdIsFresh ==
  [][/\ last'.op = "new_track" =>
          (last'.ret \notin Active(tracks) /\ events' = Append(events, StartTrack(last'.ret)))
     /\ last'.op = "split" =>
          (last'.ret \notin Active(tracks) /\ events' = Append(events, SplitTrack(last'.self, last'.ret)))]_vars

\* C8: new_track_with_id(id) and split_with_id(id): with id active the call
\* returns a handle of id, appends nothing and leaves the active set and the
\* counter as they were; with id not active it appends exactly one event,
\* StartTrack(id) respectively SplitTrack(self, id), and id is active after.
C8_WithIdAliasOrCreate ==
  [][(last'.op \in {"new_track_with_id", "split_with_id"}) =>
       /\ last'.ret = last'.arg
       /\ handles' = [handles EXCEPT ![last'.arg] = @ + 1]
       /\ IF last'.arg \in Active(tracks)
            THEN UNCHANGED <<tracks, events, next_id, panicked>>
            ELSE /\ events' = Append(events, IF last'.op = "new_track_with_id"
                                               THEN StartTrack(last'.arg)
                                               ELSE SplitTrack(last'.self, last'.arg))
                 /\ last'.arg \in Active(tracks')
                 /\ Active(tracks') = Active(tracks) \cup {last'.arg}]_vars

\* C8 witness: split_with_id has just returned an alias of an id that was
\* already active, so the log ends as it did before the call.
C8_Witness ==
  /\ last.op = "split_with_id" /\ last.res
  /\ handles[last.arg] >= 2
  /\ last.arg \in Active(tracks)
  /\ Len(events) >= 1 /\ events[Len(events)].type = "StartTrack"

\* C9: join(target) appends exactly one event, JoinTrack(self_id, target_id),
\* removes self_id from the active set if it is there and leaves every other
\* active id in place; consuming the joined handle appends no StopTrack, and a
\* release of another alias of self_id right after appends nothing.
C9_JoinAppendsOneJoinTrack ==
  [][/\ last'.op = "join" =>
          /\ events' = Append(events, JoinTrack(last'.self, last'.arg))
          /\ tracks' = retain_ne(tracks, last'.self)
          /\ last'.self \notin Active(tracks')
          /\ handles' = [handles EXCEPT ![last'.self] = @ - 1]
     /\ (last.op = "join" /\ IsRelease(last') /\ last'.self = last.self) =>
          UNCHANGED <<tracks, events, next_id, panicked>>]_vars

\* C9 witness: an active track has just been joined into another active one,
\* whose handle the caller still holds.
C9_Witness ==
  /\ last.op = "join" /\ last.res
  /\ last.arg # last.self /\ last.arg \in Active(tracks)
  /\ handles[last.arg] >= 1
  /\ events[Len(events)] = JoinTrack(last.self, last.arg)
  /\ last.self \notin Active(tracks)

\* C10: join(target) with a target whose id is not active, or whose id is the
\* id of the joined handle, appends StopTrack(self_id) instead of a JoinTrack;
\* no JoinTrack with an absent target or with child = target is ever appended.
C10_DegenerateJoinBecomesStop ==
  [][/\ (last'.op = "join" /\ (last'.arg \notin Active(tracks) \/ last'.arg = last'.self)) =>
          events' = Append(events, StopTrack(last'.self))
     /\ (Appended /\ NewEvent.type = "JoinTrack") =>
          (NewEvent.b \in Active(tracks) /\ NewEvent.a # NewEvent.b)]_vars

\* C12: every builder call leaves the events already in the log unchanged and
\* in order and extends the log by at most one event; get_track and
\* is_dangling append nothing and change neither the active set nor the
\* counter; get_track(id) returns Some (a handle of id) iff id is active.
C12_LogGrowsByAtMostOne ==
  [][/\ Len(events') \in {Len(events), Len(events) + 1}
     /\ SubSeq(events', 1, Len(events)) = events
     /\ last'.op \in {"get_track", "is_dangling"} => UNCHANGED <<tracks, events, next_id, panicked>>
     /\ last'.op = "is_dangling" => UNCHANGED handles
     /\ last'.op = "get_track" =>
          /\ last'.ret # NoId <=> last'.arg \in Active(tracks)
          /\ last'.ret # NoId => last'.ret = last'.arg /\ handles' = [handles EXCEPT ![last'.arg] = @ + 1]
          /\ last'.ret = NoId => UNCHANGED handles]_vars

\* C12 witness: get_track has just returned a second handle of an active id,
\* and the log still ends with the event that started it.
C12_Witness ==
  /\ last.op = "get_track" /\ last.ret = last.arg
  /\ last.arg \in Active(tracks)
  /\ handles[last.arg] >= 2
  /\ Len(events) >= 1 /\ events[Len(events)] = StartTrack(last.arg)

\* C13: when the registry discards its stored alias of a track while it is
\* being mutated (the removal done by a stop, a drop or a join), the release
\* logic run for that alias appends no event, removes nothing more from the
\* active set and does not fail: the call as a whole appends its one event,
\* takes exactly one entry out of tracks and does not panic.
C13_ReentrantReleaseIsNoOp ==
  [][((IsRelease(last') \/ last'.op = "join") /\ last'.res) =>
       /\ ~panicked'
       /\ Len(events') = Len(events) + 1
       /\ NewEvent = (IF last'.op = "join" THEN JoinTrack(last'.self, last'.arg) ELSE StopTrack(last'.self))
       /\ Len(tracks') = Len(tracks) - 1
       /\ tracks' = remove(tracks, position(tracks, last'.self))]_vars

\* C13 witness: a join has just taken the stored alias of an active track out
\* of a registry that holds another track, and the program goes on.
C13_Witness ==
  /\ last.op = "join" /\ last.res
  /\ ~panicked
  /\ Len(tracks) >= 1 /\ last.self \notin Active(tracks)
  /\ events[Len(events)].type = "JoinTrack"

\* C11: Metro::add_station appends Station(usize::MAX, text), and in the
\* rendering of the log the rows of that detached station show no station
\* glyph in any column, whatever tracks were created before it
C11_DetachedStationHighlightsNoRail ==
  last.op = "metro_add_station" =>
    /\ events[Len(events)].type = "Station"
    /\ events[Len(events)].a = USIZE_MAX
    /\ \A checks \in BOOLEAN :
         LET rows == Rows(EventOut(events, Len(events), Run(DefaultSplat, FALSE, checks, 0)))
         IN \A i \in 1 .. Len(rows) : \A j \in 1 .. Len(Glyphs(rows[i])) : Glyphs(rows[i])[j] # "Station"

\* the claims about hand-built logs are checked for a sink that never fails
\* and without colours, in builds with and without overflow checks
PlainRuns == {Run(DefaultSplat, FALSE, checks, 0) : checks \in BOOLEAN}
AllStraight(row) == \A j \in 1 .. Len(Glyphs(row)) : Glyphs(row)[j] = "Straight"

\* C14: replaying Station(id, text) whose text has k lines (as str::lines
\* counts them: none for the empty text) emits exactly k+1 rows and leaves the
\* active list unchanged; the first row has a station glyph exactly at the
\* columns holding id and straight glyphs elsewhere, followed by line 1; rows
\* 2..k are all-straight and carry the remaining lines in order; the last row
\* is all-straight and carries no text
C14_StationRows ==
  \A c \in PlainRuns : \A k \in 1 .. Len(events) :
    (events[k].type = "Station" /\ ~render_states(events, k, c)[k].fatal) =>
      LET before == render_states(events, k, c)[k]
          after == render_states(events, k, c)[k + 1]
          rows == Rows(Written(before, after))
          ls == lines(events[k].text)
          n == Len(ls)
      IN /\ ~after.fatal /\ ~after.err
         /\ after.tracks = before.tracks
         /\ Len(rows) = n + 1
         /\ \A i \in 1 .. n :
              /\ Len(Glyphs(rows[i])) = Len(before.tracks)
              /\ \A j \in 1 .. Len(before.tracks) :
                   Glyphs(rows[i])[j] = "Station" <=> (i = 1 /\ before.tracks[j] = events[k].a)
              /\ \A j \in 1 .. Len(before.tracks) :
                   Glyphs(rows[i])[j] \in {"Station", "Straight"}
              /\ Len(RowTexts(rows[i])) = 1
              /\ RowTexts(rows[i])[1].line = ls[i]
              /\ rows[i][Len(rows[i])].kind = "text"
         /\ Len(Glyphs(rows[n + 1])) = Len(before.tracks)
         /\ AllStraight(rows[n + 1])
         /\ RowTexts(rows[n + 1]) = <<>>
\* a two-line station on the second of two rails has been rendered
C14_Witness ==
  /\ Len(events) = 2
  /\ events[1] = StartTrack(1)
  /\ events[2] = Station(1, <<"H", "\n", "W">>)
  /\ \E c \in PlainRuns :
       /\ Len(Rows(EventOut(events, 2, c))) = 3
       /\ Glyphs(Rows(EventOut(events, 2, c))[1]) = <<"Straight", "Station">>

\* C15: for any log and any splat setting, the horizontal offset at which
\* station text begins is the same on every station row of one rendering,
\* however many rails are active when the row is drawn
C15_StationTextAligned ==
  \A splat \in Splats : \A checks \in BOOLEAN :
    LET rows == Rows(render(events, Len(events), Run(splat, FALSE, checks, 0)).out)
    IN \A i, j \in 1 .. Len(rows) :
         (RowTexts(rows[i]) # <<>> /\ RowTexts(rows[j]) # <<>>) =>
           TextOffset(rows[i], splat) = TextOffset(rows[j], splat)

\* the contract violations of a hand-built event, for the active list tr
Violates(tr, e) ==
  CASE e.type = "StartTrack" -> e.a \in Active(tr)
    [] e.type = "StartTracks" ->
         \E i \in 1 .. Len(e.ids) : e.ids[i] \in Active(tr) \/ \E j \in 1 .. (i - 1) : e.ids[j] = e.ids[i]
    [] e.type = "StopTrack" -> e.a \notin Active(tr)
    [] e.type = "SplitTrack" -> e.a \notin Active(tr)
    [] e.type = "JoinTrack" -> e.a \notin Active(tr) \/ e.b \notin Active(tr)
    [] OTHER -> FALSE

C17_StartAppendsNoEventOneRow ==
  \A c \in PlainRuns : \A k \in 1 .. Len(events) :
    LET before == render_states(events, k, c)[k]
        after == render_states(events, k, c)[k + 1]
        e == events[k]
        rows == Rows(Written(before, after))
    IN (~before.fatal /\ ~Violates(before.tracks, e)) =>
         /\ e.type = "StartTrack" =>
              /\ ~after.fatal
              /\ Written(before, after) = <<>>
              /\ after.tracks = Append(before.tracks, e.a)
         /\ e.type = "StartTracks" =>
              /\ ~after.fatal
              /\ Written(before, after) = <<>>
              /\ after.tracks = before.tracks \o e.ids
         /\ e.type = "NoEvent" =>
              /\ ~after.fatal
              /\ after.tracks = before.tracks
              /\ Len(rows) = 1
              /\ Len(rows[1]) = Len(before.tracks)
              /\ AllStraight(rows[1])
              /\ [j \in 1 .. Len(rows[1]) |-> rows[1][j].id] = before.tracks
\* StartTrack(1) then NoEvent on the seeded list: one row of two straight rails
C17_Witness ==
  /\ events = <<StartTrack(1), NoEvent>>
  /\ \E c \in PlainRuns :
       /\ render(events, 2, c).tracks = <<0, 1>>
       /\ Len(Rows(render(events, 2, c).out)) = 1
       /\ Glyphs(Rows(render(events, 2, c).out)[1]) = <<"Straight", "Straight">>

\* C18: if a write to the sink fails during rendering, the render returns the
\* error and writes nothing more; what the sink received before the failure is
\* exactly a prefix of what a never-failing sink receives for the same log and
\* settings
C18_SinkFailureStopsAtPrefix ==
  \A checks \in BOOLEAN :
    LET whole == render(events, Len(events), Run(DefaultSplat, FALSE, checks, 0))
    IN \A n \in 1 .. MaxFailAt :
         LET failing == render(events, Len(events), Run(DefaultSplat, FALSE, checks, n))
         IN /\ Len(failing.out) <= Len(whole.out)
            /\ failing.out = SubSeq(whole.out, 1, Len(failing.out))
            /\ failing.err <=> whole.attempts >= n
            /\ failing.err =>
                 /\ ~failing.fatal
                 /\ failing.attempts = n
                 /\ Len(failing.out) = n - 1
\* the sink failed during the second event, after the first event's row
C18_Witness ==
  /\ Len(events) = 2
  /\ events[2].type = "Station"
  /\ \E n \in 1 .. MaxFailAt :
       LET c == Run(DefaultSplat, FALSE, TRUE, n)
       IN /\ ~render(events, 1, c).err
          /\ Len(render(events, 1, c).out) >= 2
          /\ render(events, 2, c).err
          /\ Len(render(events, 2, c).out) > Len(render(events, 1, c).out)

\* C19: for every log, rendering with color = false and with color = true
\* produce the same rows with the same glyph at every column and the same
\* text; the outputs differ only in that each glyph of the coloured output
\* carries a colour that is a function of a track id alone
C19_ColorChangesOnlyColor ==
  \A checks \in BOOLEAN :
    LET plain == render(events, Len(events), Run(DefaultSplat, FALSE, checks, 0))
        colored == render(events, Len(events), Run(DefaultSplat, TRUE, checks, 0))
    IN /\ colored.fatal = plain.fatal
       /\ Len(colored.out) = Len(plain.out)
       /\ \A i \in 1 .. Len(plain.out) :
            /\ [colored.out[i] EXCEPT !.color = NoColor] = plain.out[i]
            /\ plain.out[i].color = NoColor
            /\ colored.out[i].kind = "rail" => colored.out[i].color \in 0 .. 254
       /\ \A i, j \in 1 .. Len(colored.out) :
            (colored.out[i].kind = "rail" /\ colored.out[j].kind = "rail"
               /\ colored.out[i].id = colored.out[j].id) =>
              colored.out[i].color = colored.out[j].color

\* C20: replaying SplitTrack(from_track_id, new_track_id) when new_track_id
\* is already active does nothing: no row is written and the active list is
\* unchanged, no second copy of new_track_id being inserted
C20_SplitOfActiveChildDoesNothing ==
  \A c \in PlainRuns : \A k \in 1 .. Len(events) :
    LET before == render(events, k - 1, c)
        after == render(events, k, c)
    IN (/\ ~before.fatal
        /\ events[k].type = "SplitTrack"
        /\ events[k].a \in Active(before.tracks)
        /\ events[k].b \in Active(before.tracks)) =>
         /\ ~after.fatal
         /\ EventOut(events, k, c) = <<>>
         /\ after.tracks = before.tracks

\* C21: after any sequence of builder calls, the registry's ordered list of
\* active ids equals the renderer's active list at the end of replaying the
\* registry's log: the same ids in the same left-to-right order
C21_RegistryListIsReplayList ==
  (last.op # "new" /\ ~to_writer(events, Len(events)).fatal) =>
    tracks = to_writer(events, Len(events)).tracks

\* the largest element of a non-empty set of numbers
MaxOf(S) == CHOOSE x \in S : \A y \in S : y <= x

\* C22: for every event log that replays without a fatal violation, the
\* widest_track of the pre-pass equals the maximum length the active list has
\* at any point of the replay, the seeded list of length 1 included
C22_WidestIsMaxActiveLength ==
  \A c \in PlainRuns :
    LET st == render_states(events, Len(events), c)
    IN ~st[Len(events) + 1].fatal =>
         st[1].widest_track = MaxOf({Len(st[k].tracks) : k \in 1 .. Len(events) + 1})

\* the glyphs of a join row by kind
BranchGlyphs == {"SplitRight", "SplitLeft"}
CornerGlyphs == {"BottomRight", "BottomtLeft"}

\* C23: replaying JoinTrack(child, target) with target at index t and child
\* at index c writes one join row in which column min(t, c) holds a branch
\* glyph, column max(t, c) a corner glyph oriented by the direction, every
\* column strictly between them a horizontal glyph and every other column a
\* straight glyph; then child is removed and the other ids keep their order
C23_JoinRow ==
  \A c \in PlainRuns : \A k \in 1 .. Len(events) :
    LET st == render_states(events, k, c)
        before == st[k]
        after == st[k + 1]
        e == events[k]
        tpos == position(before.tracks, e.b) - 1
        cpos == position(before.tracks, e.a) - 1
        lo == IF tpos < cpos THEN tpos ELSE cpos
        hi == IF tpos < cpos THEN cpos ELSE tpos
        rows == Rows(Written(before, after))
    IN (/\ ~before.fatal
        /\ e.type = "JoinTrack"
        /\ ~Violates(before.tracks, e)
        /\ tpos # cpos) =>
         /\ ~after.fatal
         /\ Len(rows) >= 1
         /\ Len(Glyphs(rows[1])) = Len(before.tracks)
         /\ \A j \in 1 .. Len(before.tracks) :
              LET g == Glyphs(rows[1])[j]
              IN /\ j - 1 = lo => g \in BranchGlyphs
                 /\ j - 1 = hi => g = (IF cpos > tpos THEN "BottomRight" ELSE "BottomtLeft")
                 /\ (j - 1 > lo /\ j - 1 < hi) => g = "Horizontal"
                 /\ (j - 1 < lo \/ j - 1 > hi) => g = "Straight"
         /\ after.tracks = retain_ne(before.tracks, e.a)

\* C24: after the join row of JoinTrack(child, target) with child at index c,
\* the closing staircase writes exactly one row for each rail that stood to
\* the right of column c, in left-to-right order, each row with exactly one
\* shift-left glyph, at that rail's new column, and straight glyphs elsewhere,
\* both when c > t and when c < t
C24_JoinStaircase ==
  \A c \in PlainRuns : \A k \in 1 .. Len(events) :
    LET st == render_states(events, k, c)
        before == st[k]
        after == st[k + 1]
        e == events[k]
        tpos == position(before.tracks, e.b) - 1
        cpos == position(before.tracks, e.a) - 1
        rows == Rows(Written(before, after))
        moved == Len(before.tracks) - 1 - cpos
    IN (/\ ~before.fatal
        /\ e.type = "JoinTrack"
        /\ ~Violates(before.tracks, e)
        /\ tpos # cpos) =>
         /\ ~after.fatal
         /\ Len(rows) = 1 + moved
         /\ \A m \in 1 .. moved :
              /\ Len(Glyphs(rows[1 + m])) = Len(after.tracks)
              /\ \A j \in 1 .. Len(after.tracks) :
                   Glyphs(rows[1 + m])[j] = (IF j - 1 = cpos + m - 1 THEN "ShiftLeft" ELSE "Straight")

\* C25: replaying SplitTrack(parent, child) with n > 1 active rails and parent
\* at index p: before the final row the opening staircase writes exactly
\* n - 1 - p rows, one for each column from the rightmost (n - 1) down to
\* p + 1 in that order, each with exactly one shift-right glyph at that column
\* and straight glyphs elsewhere; with n = 1 no staircase row is written
C25_SplitStaircase ==
  \A c \in PlainRuns : \A k \in 1 .. Len(events) :
    LET st == render_states(events, k, c)
        before == st[k]
        after == st[k + 1]
        e == events[k]
        n == Len(before.tracks)
        p == position(before.tracks, e.a) - 1
        rows == Rows(Written(before, after))
    IN (/\ ~before.fatal
        /\ e.type = "SplitTrack"
        /\ e.a \in Active(before.tracks)
        /\ e.b \notin Active(before.tracks)) =>
         /\ ~after.fatal
         /\ Len(rows) - 1 = (IF n > 1 THEN n - 1 - p ELSE 0)
         /\ \A m \in 1 .. (Len(rows) - 1) :
              /\ Len(Glyphs(rows[m])) = n
              /\ \A j \in 1 .. n :
                   Glyphs(rows[m])[j] = (IF j - 1 = n - m THEN "ShiftRight" ELSE "Straight")

C27_StopRow ==
  \A c \in PlainRuns : \A k \in 1 .. Len(events) :
    LET st == render_states(events, k, c)
        before == st[k]
        after == st[k + 1]
        e == events[k]
        rows == Rows(Written(before, after))
    IN (/\ ~before.fatal
        /\ e.type = "StopTrack"
        /\ e.a \in Active(before.tracks)) =>
         /\ ~after.fatal
         /\ Len(rows) = 1
         /\ Len(Glyphs(rows[1])) = Len(before.tracks)
         /\ \A j \in 1 .. Len(before.tracks) :
              Glyphs(rows[1])[j] = (IF before.tracks[j] = e.a THEN "Ground" ELSE "Straight")
         /\ after.tracks = retain_ne(before.tracks, e.a)

\* C28: in every reachable builder state the registry's list of stored
\* aliases holds at most one entry per id; hence removing the first entry
\* with a given id removes the id from the active set
C28_OneStoredAliasPerId ==
  /\ NoDuplicates(tracks)
  /\ \A id \in Active(tracks) : id \notin Active(remove(tracks, position(tracks, id)))
\* an id was created, stopped and created again: it is stored once
C28_Witness ==
  /\ Len(events) = 3
  /\ events[1].type = "StartTrack"
  /\ events[2] = StopTrack(events[1].a)
  /\ events[3] = events[1]
  /\ tracks = <<events[1].a>>

\* C29: for every log and at every Station row reached during replay,
\* widest_track is at least the current length of the active list, so the
\* padding line_length + widest_track - |active| + 3 is computed without
\* unsigned underflow and is at least line_length + 3
C29_StationPaddingNoUnderflow ==
  \A checks \in BOOLEAN : \A k \in 1 .. Len(events) :
    LET c == Run(DefaultSplat, FALSE, checks, 0)
        st == render_states(events, k, c)
        before == st[k]
        after == st[k + 1]
        written == Written(before, after)
    IN (events[k].type = "Station" /\ ~before.fatal) =>
         /\ ~after.fatal
         /\ before.widest_track >= Len(before.tracks)
         /\ \A i \in 1 .. Len(written) :
              written[i].kind = "text" => written[i].pad >= Len(written[i].line) + 3

====
